---- MODULE Spec2Model ----
(***************************************************************************)
(* Model of the request execution and token-lifecycle engine of            *)
(* pikpakapi-go: Client.doRequest (the bounded retry loop with the         *)
(* error_code 16 refresh branch) and Client.RefreshAccessToken, over the   *)
(* session fields of Client (specification Spec), and the authentication   *)
(* flow with the single-request helpers: NewClient, Login, DecodeToken,    *)
(* EncodeToken, postJSON, patchJSON, postForm, Delete (specification       *)
(* SpecAuth).                                                              *)
(***************************************************************************)
EXTENDS Integers, Sequences, FiniteSets, TLC

\* ------------------------------------------------------------------ bounds
MaxRetriesBound == 3    \* WithMaxRetries values explored: 0..MaxRetriesBound
MaxCalls        == 1    \* doRequest calls per session
MaxDirect       == 1    \* direct RefreshAccessToken calls per session
MaxOps          == 2    \* Login / token / single-request operations per session
MaxLen          == 2    \* length of the token strings handed to Encode
MaxBusCalls     == 4    \* Subscribe / Unsubscribe / Publish calls per event bus
MaxProcs        == 2    \* calls running concurrently on one session
MaxDriveCalls   == 2    \* drive operations per session

\* ------------------------------------------------------- program constants
DefaultMaxRetries == 3
InitialBackoff    == 3          \* seconds
StatusOK          == 200
TokenExpiredCode  == 16

InvalidAccountOrPassword == "invalid_account_or_password"

\* A JSON field that is missing (or not a string): the `.(string)` type
\* assertion yields ok = false.
Absent == "<absent>"

\* ---------------------------------------------------------------- variables
VARIABLES
    \* ClientConfig
    maxRetries,             \* Client.maxRetries
    tokenRefreshCallback,   \* TRUE iff Client.tokenRefreshCallback != nil
    \* Session
    accessToken, refreshToken, userID, encodedToken,
    \* the doRequest call in progress
    pc,                     \* "idle" | "loop" | "done" | "panicked"
    attempt,                \* loop variable of doRequest
    lastError,              \* local lastError of doRequest
    reqAuth,                \* Authorization header set on req
    result,                 \* what the call (or direct refresh) returned
    cancelled,              \* ctx.Done() is closed
    slept,                  \* the time.Sleep durations of the call, in seconds
    \* observation of the run (history)
    sent,                   \* httpClient.Do(req) invocations of the call
    last,                   \* the latest exchange with the server
    firstRefreshed,         \* the first attempt of the call got the token-expired
                            \* sentinel and the refresh it triggered was accepted
    onlyTransportErrors,    \* every Do of the call returned an error
    calls, directs,         \* calls started so far
    \* Session, the fields of the authentication flow
    username, password, deviceID, captchaToken,
    \* observation of the authentication flow and the single-request helpers
    op,                     \* the operation that ran last
    ops,                    \* operations run so far
    net,                    \* the requests the last Login sent, in order
    \* package token: one use of Encode / Decode
    tokInput,               \* the pair handed to Encode
    tokEncoded,             \* the encoded string
    tokDecoded,             \* what Decode returned
    tokPc,                  \* how far the use has got
    \* package event: EventBus
    handlers, nextHandlerID,
    goroutines,             \* the handler invocations Publish has started
    count,                  \* the variable the handlers increment
    event,                  \* the type of the event published last
    published,              \* Publish calls so far
    removed,                \* <<type, handler>> unsubscribed and not subscribed since
    busCalls,               \* Subscribe / Unsubscribe / Publish calls so far
    \* concurrent calls on one session
    procs,                  \* per call: where it is and what it has read
    \* the drive operations
    drvOp,                  \* the drive operation that ran last
    request,                \* the request it sent
    served,                 \* what the server answered to it
    fileInfo,               \* what OfflineFileInfo returned to GetTaskStatus
    reply,                  \* what the operation returned
    drvCalls,               \* drive operations run so far
    \* package config
    home,                   \* the environment variable HOME
    files,                  \* the candidate files, by path
    loaded                  \* what LoadConfig returned

config  == <<maxRetries, tokenRefreshCallback>>
session == <<accessToken, refreshToken, userID, encodedToken>>
call    == <<pc, attempt, lastError, reqAuth, result, cancelled, slept>>
history == <<sent, last, firstRefreshed, onlyTransportErrors, calls, directs>>
login   == <<username, password, deviceID, captchaToken, op, ops, net>>
client  == <<config, session, call, history, login>>
codec   == <<tokInput, tokEncoded, tokDecoded, tokPc>>
bus     == <<handlers, nextHandlerID, goroutines, count, event, published,
             removed, busCalls>>
race    == <<procs>>
drive   == <<drvOp, request, served, fileInfo, reply, drvCalls>>
conf    == <<home, files, loaded>>
others  == <<codec, bus, race, drive, conf>>
vars    == <<client, others>>

\* ------------------------------------------------------------------ inputs
NoBody == [json |-> FALSE, error |-> Absent, error_description |-> Absent,
           error_code |-> 0]

\* Response bodies of the drive/user endpoints.  error_code 0 stands for a
\* body without a numeric error_code of 16.
Bodies ==
    {NoBody}
    \cup [json : {TRUE},
          error : {Absent, InvalidAccountOrPassword, "server_error"},
          error_description : {Absent},
          error_code : {0, TokenExpiredCode}]
    \cup {[json |-> TRUE, error |-> "server_error",
           error_description |-> "internal", error_code |-> 0]}

EmptyObject == [json |-> TRUE, error |-> Absent, error_description |-> Absent,
                error_code |-> 0]

TokenExpiredBody == [json |-> TRUE, error |-> Absent, error_description |-> Absent,
                     error_code |-> TokenExpiredCode]

\* What httpClient.Do + io.ReadAll yield for one attempt: an error of Do, an
\* error of ReadAll, or a status with a body.
Responses ==
    [kind : {"neterr", "readerr"}, status : {0}, body : {NoBody}]
    \cup [kind : {"http"}, status : {200}, body : {NoBody, EmptyObject}]
    \cup [kind : {"http"}, status : {500}, body : Bodies]
    \cup [kind : {"http"}, status : {201, 401, 403},
          body : {NoBody, EmptyObject, TokenExpiredBody}]

NoResponse == [kind |-> "none", status |-> 0, body |-> NoBody]

\* What the /v1/auth/token endpoint answers to postForm.
NoTokenBody == [json |-> FALSE, access_token |-> Absent,
                refresh_token |-> Absent, sub |-> Absent]

TokenBodies ==
    { NoTokenBody,
      [json |-> TRUE, access_token |-> Absent, refresh_token |-> Absent, sub |-> Absent],
      [json |-> TRUE, access_token |-> "a1", refresh_token |-> "r1", sub |-> "u1"],
      [json |-> TRUE, access_token |-> "a1", refresh_token |-> Absent, sub |-> Absent],
      [json |-> TRUE, access_token |-> "", refresh_token |-> "r1", sub |-> Absent] }

RefreshResponses ==
    [kind : {"neterr", "readerr"}, body : {NoTokenBody}]
    \cup [kind : {"http"}, body : TokenBodies]

NoRefresh == [kind |-> "none", body |-> NoTokenBody]

\* How the caller's hook behaves when it is invoked.
CallbackBehaviours == {"returns", "panics"}

\* ------------------------------------------------------------------ errors
NilError == [kind |-> "nil", status |-> 0, body |-> NoBody, text |-> <<>>]

\* the error returned by httpClient.Do
TransportError == [kind |-> "transport", status |-> 0, body |-> NoBody, text |-> <<>>]

\* the error returned by io.ReadAll
ReadError == [kind |-> "read", status |-> 0, body |-> NoBody, text |-> <<>>]

\* the error returned by json.Unmarshal
SyntaxError == [kind |-> "syntax", status |-> 0, body |-> NoBody, text |-> <<>>]

\* fmt.Errorf("status %d: %s", resp.StatusCode, string(respBody))
StatusError(status, body) ==
    [kind |-> "status", status |-> status, body |-> body, text |-> <<>>]

\* fmt.Errorf("%s: %s", errMsg, desc) / fmt.Errorf("%s", errMsg); msg is the
\* sequence of the strings formatted into the message
MessageError(msg) == [kind |-> "message", status |-> 0, body |-> NoBody, text |-> msg]

\* exception.NewPikpakExceptionWithError(message, err)
PikpakException(message, err) == [message |-> message, cause |-> err]

NoError == PikpakException("", NilError)

ErrInvalidUsernamePassword == PikpakException("invalid username or password", NilError)

Success(body) == [ok |-> TRUE, body |-> body, error |-> NoError]

Failure(err)  == [ok |-> FALSE, body |-> NoBody, error |-> err]

NoResult == [ok |-> FALSE, body |-> NoBody, error |-> PikpakException("<none>", NilError)]

\* ------------------------------------------------------------- token codec
\* an encoding that leaves the refresh token out
EncodeToken_AccessOnly(a, r) == <<"base64", "access_token", a, "refresh_token", "">>

\* utils.EncodeToken: base64.StdEncoding of the JSON object
\* {"access_token": a, "refresh_token": r}, kept as the sequence of its parts.
EncodeToken(a, r) == <<"base64", "access_token", a, "refresh_token", r>>

\* ----------------------------------------------------------------- headers
\* Client.getHeaders, the Authorization entry: "Bearer <accessToken>" when the
\* access token is non-empty, no entry otherwise.
getHeaders(token) ==
    IF token # "" THEN [present |-> TRUE, bearer |-> token]
                  ELSE [present |-> FALSE, bearer |-> ""]

\* ---------------------------------------------------------------- postForm
\* Client.postForm: one request, no retry, the status code is not inspected.
postForm(rr) ==
    CASE rr.kind = "neterr"  -> [err |-> PikpakException("request failed", TransportError),
                                 data |-> NoTokenBody]
      [] rr.kind = "readerr" -> [err |-> PikpakException("failed to read response", ReadError),
                                 data |-> NoTokenBody]
      [] OTHER ->
            IF ~rr.body.json
            THEN [err |-> PikpakException("failed to unmarshal response", SyntaxError),
                  data |-> NoTokenBody]
            ELSE [err |-> NoError, data |-> rr.body]

\* ------------------------------------------------------ RefreshAccessToken
Session(a, r, u, e) ==
    [accessToken |-> a, refreshToken |-> r, userID |-> u, encodedToken |-> e]

\* The hook is invoked iff one is configured; a panic in it is not recovered.
InvokeCallback(configured, cb) ==
    [invoked |-> IF configured THEN 1 ELSE 0,
     panicked |-> configured /\ cb = "panics"]

\* RefreshAccessToken with the hook invoked right after postForm returned,
\* before the response is checked for an access_token.
RefreshAccessToken_NotifyBeforeCheck(s, configured, rr, cb) ==
    LET f == postForm(rr) IN
    IF f.err # NoError
    THEN [err |-> f.err, session |-> s, invoked |-> 0, panicked |-> FALSE]
    ELSE
        LET c == InvokeCallback(configured, cb) IN
        IF f.data.access_token = Absent
        THEN [err |-> PikpakException("refresh failed: no access_token", NilError),
              session |-> s, invoked |-> c.invoked, panicked |-> FALSE]
        ELSE
            LET a  == f.data.access_token
                r  == IF f.data.refresh_token # Absent THEN f.data.refresh_token
                                                       ELSE s.refreshToken
                u  == IF f.data.sub # Absent THEN f.data.sub ELSE s.userID
            IN [err |-> NoError, session |-> Session(a, r, u, EncodeToken(a, r)),
                invoked |-> c.invoked, panicked |-> c.panicked]

\* Client.RefreshAccessToken on session s, the token endpoint answering rr and
\* the hook (when configured) behaving as cb.
RefreshAccessToken(s, configured, rr, cb) ==
    LET f == postForm(rr) IN
    IF f.err # NoError
    THEN [err |-> f.err, session |-> s, invoked |-> 0, panicked |-> FALSE]
    ELSE IF f.data.access_token = Absent
    THEN [err |-> PikpakException("refresh failed: no access_token", NilError),
          session |-> s, invoked |-> 0, panicked |-> FALSE]
    ELSE
        LET a  == f.data.access_token
            r  == IF f.data.refresh_token # Absent THEN f.data.refresh_token
                                                   ELSE s.refreshToken
            u  == IF f.data.sub # Absent THEN f.data.sub ELSE s.userID
            s2 == Session(a, r, u, EncodeToken(a, r))
            c  == InvokeCallback(configured, cb)
        IN [err |-> NoError, session |-> s2,
            invoked |-> c.invoked, panicked |-> c.panicked]

\* --------------------------------------------------------------- doRequest
\* a loop that makes two attempts more than maxRetries
LoopCondition_TwoExtra(att, max) == att <= max + 1

\* for attempt := 0; attempt < c.maxRetries; attempt++
LoopCondition(att, max) == att < max

\* a wait that grows by initialBackoff per attempt instead of doubling
Backoff_Linear(att) == InitialBackoff * (att + 1)

\* time.Sleep(c.initialBackoff * time.Duration(1<<attempt))
Backoff(att) == InitialBackoff * (2 ^ att)

\* if resp.StatusCode == http.StatusOK { return respBody, nil }
IsSuccessStatus(status) == status = StatusOK

\* control outcomes of one iteration of the loop
Continue(s, lastErr, rr, invoked) ==
    [ctl |-> "continue", result |-> NoResult, lastError |-> lastErr,
     session |-> s, refresh |-> rr, invoked |-> invoked]

Return(s, res, lastErr, rr, invoked) ==
    [ctl |-> "return", result |-> res, lastError |-> lastErr,
     session |-> s, refresh |-> rr, invoked |-> invoked]

Panic(s, lastErr, rr, invoked) ==
    [ctl |-> "panic", result |-> NoResult, lastError |-> lastErr,
     session |-> s, refresh |-> rr, invoked |-> invoked]

\* the respData["error"] block without the sentinel test: every error string
\* is recorded as lastError and the loop goes on
HandleErrorField_NoSentinel(body, lastErr) ==
    IF body.error # Absent
    THEN IF body.error_description # Absent
         THEN [return |-> FALSE,
               lastError |-> MessageError(<<body.error, body.error_description>>)]
         ELSE [return |-> FALSE, lastError |-> MessageError(<<body.error>>)]
    ELSE [return |-> FALSE, lastError |-> lastErr]

\* the respData["error"] block: the invalid-credentials sentinel returns,
\* any other error string is recorded as lastError
HandleErrorField(body, lastErr) ==
    IF body.error # Absent
    THEN IF body.error = InvalidAccountOrPassword
         THEN [return |-> TRUE, lastError |-> lastErr]
         ELSE IF body.error_description # Absent
              THEN [return |-> FALSE,
                    lastError |-> MessageError(<<body.error, body.error_description>>)]
              ELSE [return |-> FALSE, lastError |-> MessageError(<<body.error>>)]
    ELSE [return |-> FALSE, lastError |-> lastErr]

\* the respData["error_code"] block with a failed refresh treated like any
\* other failed attempt: recorded, slept on and retried
HandleErrorCode_RetryOnRefreshError(s, configured, body, lastErr, rr, cb) ==
    IF body.error_code = TokenExpiredCode
    THEN LET r == RefreshAccessToken(s, configured, rr, cb) IN
         IF r.panicked THEN Panic(r.session, lastErr, rr, r.invoked)
         ELSE IF r.err # NoError
              THEN Continue(r.session, r.err.cause, rr, r.invoked)
         ELSE Continue(r.session,
                       MessageError(<<"token refreshed, please retry">>),
                       rr, r.invoked)
    ELSE Continue(s, lastErr, NoRefresh, 0)

\* the respData["error_code"] block and the fall-through sleep
HandleErrorCode(s, configured, body, lastErr, rr, cb) ==
    IF body.error_code = TokenExpiredCode
    THEN LET r == RefreshAccessToken(s, configured, rr, cb) IN
         IF r.panicked THEN Panic(r.session, lastErr, rr, r.invoked)
         ELSE IF r.err # NoError
              THEN Return(r.session, Failure(r.err), lastErr, rr, r.invoked)
         ELSE Continue(r.session,
                       MessageError(<<"token refreshed, please retry">>),
                       rr, r.invoked)
    ELSE Continue(s, lastErr, NoRefresh, 0)

\* One iteration of the retry loop: the transport answers resp; rr and cb are
\* the token endpoint's answer and the hook's behaviour should the iteration
\* refresh.
LoopBody(s, configured, lastErr, resp, rr, cb) ==
    CASE resp.kind = "neterr"  -> Continue(s, TransportError, NoRefresh, 0)
      [] resp.kind = "readerr" -> Continue(s, ReadError, NoRefresh, 0)
      [] OTHER ->
            IF IsSuccessStatus(resp.status)
            THEN Return(s, Success(resp.body), lastErr, NoRefresh, 0)
            ELSE IF ~resp.body.json
            THEN Continue(s, StatusError(resp.status, resp.body), NoRefresh, 0)
            ELSE LET e == HandleErrorField(resp.body, lastErr) IN
                 IF e.return
                 THEN Return(s, Failure(ErrInvalidUsernamePassword), lastErr,
                             NoRefresh, 0)
                 ELSE HandleErrorCode(s, configured, resp.body, e.lastError, rr, cb)

\* return nil, NewPikpakExceptionWithError("max retries reached, ...", lastError)
MaxRetriesReached(lastErr) == Failure(PikpakException("max retries reached", lastErr))

\* ----------------------------------------------------------------- getJSON
\* getJSON that hands the body of doRequest on without parsing it
getJSON_NoParse(res) == res

\* Client.getJSON applied to what doRequest returned: an error is passed on,
\* a body is parsed by json.Unmarshal
getJSON(res) ==
    IF ~res.ok THEN res
    ELSE IF ~res.body.json
    THEN Failure(PikpakException("failed to unmarshal response", SyntaxError))
    ELSE res

\* ----------------------------------------------------------------- history
\* One exchange: the response to the request, the token endpoint's answer when
\* RefreshAccessToken ran, how often the hook was invoked and how it behaved,
\* the Authorization header the request carried and the session's access
\* token when it was dispatched.
Exchange(resp, rr, n, cb, auth, token) ==
    [resp |-> resp, refresh |-> rr, invoked |-> n, cb |-> cb,
     auth |-> auth, token |-> token]

NoExchange == Exchange(NoResponse, NoRefresh, 0, "none", getHeaders(""), "")

\* a non-success response whose body carries error_code 16 (and not the
\* invalid-credentials sentinel)
TokenExpiredResponse(resp) ==
    /\ resp.kind = "http" /\ resp.status # StatusOK
    /\ resp.body.json /\ resp.body.error_code = TokenExpiredCode
    /\ resp.body.error # InvalidAccountOrPassword

\* the token endpoint answered a refresh request with a token record
RefreshAccepted(rr) ==
    rr.kind = "http" /\ rr.body.json /\ rr.body.access_token # Absent

CurrentSession == Session(accessToken, refreshToken, userID, encodedToken)

SetSession(s) ==
    /\ accessToken'  = s.accessToken
    /\ refreshToken' = s.refreshToken
    /\ userID'       = s.userID
    /\ encodedToken' = s.encodedToken

\* ---------------------------------------------------------------- at rest
\* The components a specification does not exercise stay as they are
\* before their first use.
NoData == [present |-> FALSE, access |-> <<>>, refresh |-> <<>>]

NoText == [object |-> FALSE, members |-> <<>>]

NoEncoded == [base64 |-> FALSE, text |-> NoText]

NoDecoded == [err |-> NilError, data |-> NoData]

CodecAtRest ==
    /\ tokInput = NoData
    /\ tokEncoded = NoEncoded
    /\ tokDecoded = NoDecoded
    /\ tokPc = "unused"

\* the event types the model publishes and subscribes to
EventTypes == {"login_success", "download_completed"}

\* NewEventBus
BusAtRest ==
    /\ handlers = [t \in EventTypes |-> <<>>]
    /\ nextHandlerID = 1
    /\ goroutines = {}
    /\ count = 0
    /\ event = "none"
    /\ published = 0
    /\ removed = {}
    /\ busCalls = 0

\* the calls that may run concurrently
Procs == 1..MaxProcs

\* a call that has not been made
NoProc == [pc |-> "unused", auth |-> "", form |-> "", answer |-> NoRefresh]

RaceAtRest == procs = [p \in Procs |-> NoProc]

\* one request of a drive operation: method and path, the ids and the star
\* flag of a JSON body, the task_ids and delete_files query parameters
DriveRequest(method, path, ids, star, taskIDs, deleteFiles) ==
    [method |-> method, path |-> path, ids |-> ids, star |-> star,
     task_ids |-> taskIDs, delete_files |-> deleteFiles]

NoDriveRequest == DriveRequest("none", "", <<>>, Absent, <<>>, Absent)

\* what OfflineFileInfo hands to GetTaskStatus: an error, or a file record
\* whose phase may be missing
FileInfo(err, phase) == [err |-> err, phase |-> phase]

NoFileInfo == FileInfo(NoError, Absent)

\* what a drive operation returns: its error, and its download status when it
\* is GetTaskStatus
DriveReply(err, status) == [err |-> err, status |-> status]

NoDriveReply == DriveReply(NoResult.error, "")

\* no drive operation has run
DriveAtRest ==
    /\ drvOp = "none"
    /\ request = NoDriveRequest
    /\ served = NoResponse
    /\ fileInfo = NoFileInfo
    /\ reply = NoDriveReply
    /\ drvCalls = 0

\* a candidate file: whether it exists and can be read, what its bytes are to
\* json.Unmarshal, and the members of its object that Config has fields for
ConfigFile(kind, user, token) ==
    [kind |-> kind, username |-> user, access_token |-> token]

MissingFile == ConfigFile("missing", Absent, Absent)

\* the home directory of the model, and the paths LoadConfig can try
HomeDir == "/home/u"

AllPaths == {"config.json", ".pikpakapi.json", "/home/u/.pikpakapi.json"}

\* type Config struct, two of its eight string fields
Config(user, token) == [username |-> user, access_token |-> token]

\* LoadConfig has not been called
NotLoaded == [err |-> "<none>", cfg |-> Config("", "")]

ConfAtRest ==
    /\ home = HomeDir
    /\ files = [p \in AllPaths |-> MissingFile]
    /\ loaded = NotLoaded

OthersAtRest ==
    CodecAtRest /\ BusAtRest /\ RaceAtRest /\ DriveAtRest /\ ConfAtRest

\* -------------------------------------------------------------------- Init
\* NewClient with WithMaxRetries, WithTokenRefreshCallback, WithAccessToken
\* and WithRefreshToken options.
Init ==
    /\ maxRetries \in 0..MaxRetriesBound
    /\ tokenRefreshCallback \in BOOLEAN
    /\ \E p \in {<<"", "">>, <<"a0", "">>, <<"a0", "r0">>} :
            accessToken = p[1] /\ refreshToken = p[2]
    /\ userID = ""
    /\ encodedToken = <<>>
    /\ pc = "idle"
    /\ attempt = 0
    /\ lastError = NilError
    /\ reqAuth = getHeaders("")
    /\ result = NoResult
    /\ cancelled = FALSE
    /\ slept = <<>>
    /\ sent = 0
    /\ last = NoExchange
    /\ firstRefreshed = FALSE
    /\ onlyTransportErrors = TRUE
    /\ calls = 0
    /\ directs = 0
    /\ username = "user@example.com"
    /\ password = "secret"
    /\ deviceID = <<"md5", "user@example.com", "secret">>
    /\ captchaToken = ""
    /\ op = "none"
    /\ ops = 0
    /\ net = <<>>
    /\ OthersAtRest

\* ----------------------------------------------------------------- actions
\* doRequest up to the first evaluation of the loop condition: the request is
\* built and its headers are set from the session, once.  ctx may already be
\* cancelled when the call is made.
StartCall ==
    /\ pc \in {"idle", "done"}
    /\ calls < MaxCalls
    /\ calls' = calls + 1
    /\ reqAuth' = getHeaders(accessToken)
    /\ attempt' = 0
    /\ lastError' = NilError
    /\ slept' = <<>>
    /\ cancelled' \in BOOLEAN
    /\ sent' = 0
    /\ last' = NoExchange
    /\ firstRefreshed' = FALSE
    /\ onlyTransportErrors' = TRUE
    /\ IF LoopCondition(0, maxRetries)
       THEN pc' = "loop" /\ result' = NoResult
       ELSE pc' = "done" /\ result' = MaxRetriesReached(NilError)
    /\ UNCHANGED <<config, session, directs, login, others>>

\* One iteration of the loop, including the evaluation of the loop condition
\* that follows it.  With ctx cancelled httpClient.Do returns an error.
Attempt ==
    /\ pc = "loop"
    /\ \E resp \in IF cancelled THEN {r \in Responses : r.kind = "neterr"}
                                ELSE Responses :
       \E rr \in IF resp.body.error_code = TokenExpiredCode
                 THEN RefreshResponses ELSE {NoRefresh} :
       \E cb \in IF RefreshAccepted(rr) /\ tokenRefreshCallback
                 THEN CallbackBehaviours ELSE {"returns"} :
          LET out == LoopBody(CurrentSession, tokenRefreshCallback,
                              lastError, resp, rr, cb)
          IN
          /\ sent' = sent + 1
          /\ last' = Exchange(resp, out.refresh, out.invoked,
                              IF out.invoked > 0 THEN cb ELSE "none",
                              reqAuth, accessToken)
          /\ firstRefreshed' =
                IF sent = 0
                THEN TokenExpiredResponse(resp) /\ RefreshAccepted(out.refresh)
                ELSE firstRefreshed
          /\ onlyTransportErrors' = (onlyTransportErrors /\ resp.kind = "neterr")
          /\ SetSession(out.session)
          /\ CASE out.ctl = "return" ->
                    /\ pc' = "done"
                    /\ result' = out.result
                    /\ UNCHANGED <<attempt, lastError, slept>>
               [] out.ctl = "panic" ->
                    /\ pc' = "panicked"
                    /\ UNCHANGED <<attempt, lastError, slept, result>>
               [] OTHER ->
                    /\ lastError' = out.lastError
                    /\ slept' = Append(slept, Backoff(attempt))
                    /\ attempt' = attempt + 1
                    /\ IF LoopCondition(attempt + 1, maxRetries)
                       THEN pc' = "loop" /\ result' = NoResult
                       ELSE pc' = "done" /\ result' = MaxRetriesReached(out.lastError)
    /\ UNCHANGED <<config, reqAuth, cancelled, calls, directs, login, others>>

\* The caller cancels ctx (or its deadline passes) while the call runs.
Cancel ==
    /\ pc = "loop"
    /\ ~cancelled
    /\ cancelled' = TRUE
    /\ UNCHANGED <<config, session, pc, attempt, lastError, reqAuth, result,
                   slept, history, login, others>>

\* The caller invokes RefreshAccessToken itself, between calls.
DirectRefresh ==
    /\ pc \in {"idle", "done"}
    /\ directs < MaxDirect
    /\ directs' = directs + 1
    /\ \E rr \in RefreshResponses :
       \E cb \in IF RefreshAccepted(rr) /\ tokenRefreshCallback
                 THEN CallbackBehaviours ELSE {"returns"} :
          LET r == RefreshAccessToken(CurrentSession, tokenRefreshCallback, rr, cb) IN
          /\ SetSession(r.session)
          /\ last' = Exchange(NoResponse, rr, r.invoked,
                              IF r.invoked > 0 THEN cb ELSE "none",
                              getHeaders(""), accessToken)
          /\ pc' = IF r.panicked THEN "panicked" ELSE "idle"
          /\ result' = IF r.panicked THEN NoResult
                       ELSE IF r.err # NoError THEN Failure(r.err)
                       ELSE Success(NoBody)
    /\ sent' = 0
    /\ firstRefreshed' = FALSE
    /\ onlyTransportErrors' = TRUE
    /\ op' = "RefreshAccessToken"
    /\ net' = <<>>
    /\ UNCHANGED <<config, attempt, lastError, reqAuth, cancelled, slept, calls,
                   username, password, deviceID, captchaToken, ops, others>>

Next == StartCall \/ Attempt \/ Cancel \/ DirectRefresh

Spec == Init /\ [][Next]_vars

\* -------------------------------------------------------------- properties
\* a non-success response whose body carries the invalid-credentials sentinel
InvalidCredentialsResponse(resp) ==
    /\ resp.kind = "http" /\ resp.status # StatusOK
    /\ resp.body.json /\ resp.body.error = InvalidAccountOrPassword

InCall == pc \in {"loop", "done", "panicked"} /\ sent >= 1

RefreshErrorMessages ==
    {"request failed", "failed to read response",
     "failed to unmarshal response", "refresh failed: no access_token"}

\* C1: with maxRetries >= 1, a call whose first attempt receives the
\* token-expired sentinel, whose refresh is accepted and whose second attempt
\* (when one is made) succeeds, has re-sent the request and returns the second
\* attempt's successful response.
C1_RefreshThenSuccess ==
    ( /\ pc = "done"
      /\ maxRetries >= 1
      /\ firstRefreshed
      /\ (sent >= 2 => (sent = 2 /\ last.resp.kind = "http"
                                  /\ last.resp.status = StatusOK)) )
    => (sent = 2 /\ result.ok /\ result.body = last.resp.body)

\* C2: every attempt carries the Authorization header of the session's access
\* token at the time the attempt is sent, so the attempt that follows a
\* successful refresh carries the new token.
C2_HeadersRebuiltPerAttempt ==
    (InCall /\ last.token # "")
    => (last.auth.present /\ last.auth.bearer = last.token)

\* C3: with maxRetries = 3 and a transport that fails on every attempt, the
\* call has sent the request exactly 4 times when it gives up.
C3_FourAttemptsForThreeRetries ==
    (pc = "done" /\ maxRetries = 3 /\ onlyTransportErrors) => sent = 4

\* the error the final attempt of a call must have recorded: the transport or
\* read error itself, status and body of a non-success response without
\* sentinel (a message built from the body's error field is accepted too)
DescribesAttempt(err, resp) ==
    CASE resp.kind = "neterr"  -> err = TransportError
      [] resp.kind = "readerr" -> err = ReadError
      [] resp.kind = "http" ->
            IF TokenExpiredResponse(resp) THEN err # NilError
            ELSE \/ err = StatusError(resp.status, resp.body)
                 \/ /\ resp.body.json /\ resp.body.error # Absent
                    /\ err.kind = "message" /\ err.text[1] = resp.body.error
      [] OTHER -> FALSE

\* C4: a call that exhausts its attempts returns the max-retries error wrapping
\* an error recorded by its final attempt.
C4_WrapsErrorOfFinalAttempt ==
    (pc = "done" /\ sent >= 1 /\ result.error.message = "max retries reached")
    => DescribesAttempt(result.error.cause, last.resp)

\* C5: when the refresh triggered by the token-expired sentinel fails, the call
\* is over at that attempt and its result is the refresh error, whatever
\* number of attempts remains.
C5_RefreshFailureIsTerminal ==
    (InCall /\ TokenExpiredResponse(last.resp) /\ ~RefreshAccepted(last.refresh))
    => ( /\ pc = "done"
         /\ ~result.ok
         /\ last.refresh.kind # "none"
         /\ result.error.message \in RefreshErrorMessages )

W5_RefreshFailedWithAttemptsLeft ==
    /\ pc = "done" /\ sent = 1 /\ maxRetries = 3
    /\ TokenExpiredResponse(last.resp)
    /\ last.refresh.kind = "http" /\ ~RefreshAccepted(last.refresh)
    /\ result.error.message = "refresh failed: no access_token"

\* C6: the attempt that receives the invalid-credentials sentinel on a
\* non-success response ends the call with the invalid-credentials error; no
\* retry follows it, so a transport that answers with the sentinel is asked
\* exactly once, for every maxRetries that lets a request be sent.
C6_InvalidCredentialsIsTerminal ==
    (InCall /\ InvalidCredentialsResponse(last.resp))
    => ( /\ pc = "done"
         /\ result = Failure(ErrInvalidUsernamePassword)
         /\ attempt = sent - 1 )

W6_InvalidCredentialsAfterOneAttempt ==
    /\ pc = "done" /\ sent = 1 /\ maxRetries = 3
    /\ InvalidCredentialsResponse(last.resp)
    /\ result = Failure(ErrInvalidUsernamePassword)

\* C7: a response with status 401 or 403 ends the call at that attempt with a
\* typed error (invalid access token for 401, invalid credentials for 403).
C7_AuthStatusIsTerminal ==
    (InCall /\ last.resp.kind = "http" /\ last.resp.status \in {401, 403})
    => ( /\ pc = "done"
         /\ ~result.ok
         /\ result.error.message =
                IF last.resp.status = 401 THEN "invalid access token"
                                          ELSE "invalid credentials" )

\* C8: once ctx is cancelled the running call starts no further attempt and
\* sleeps no further backoff.
C8_NoAttemptAfterCancel ==
    [][(pc = "loop" /\ cancelled) => (sent' = sent /\ slept' = slept)]_vars

\* C9: a configured tokenRefreshCallback is invoked exactly once by every
\* refresh (engine-triggered or direct) that the token endpoint accepted, and
\* not at all by a refresh that fails.
C9_CallbackOncePerSuccessfulRefresh ==
    last.invoked = IF tokenRefreshCallback /\ RefreshAccepted(last.refresh)
                   THEN 1 ELSE 0

W9_CallbackFiredByEngineRefresh ==
    /\ pc = "loop" /\ sent = 1 /\ tokenRefreshCallback
    /\ TokenExpiredResponse(last.resp) /\ RefreshAccepted(last.refresh)
    /\ last.invoked = 1 /\ last.cb = "returns"

\* C10: a tokenRefreshCallback that panics does not crash the call: the
\* session holds the refreshed token and the request that triggered the
\* refresh is retried.
C10_CallbackPanicIsContained ==
    (InCall /\ last.cb = "panics")
    => ( /\ pc # "panicked"
         /\ accessToken = last.refresh.body.access_token
         /\ attempt = sent )


\* ================================================================ SpecAuth
\* The authentication flow and the single-request helpers.

\* ------------------------------------------------------------------ inputs
\* Bodies of the captcha-init and sign-in endpoints.
AuthBody(json, ct, a, r, u, e) ==
    [json |-> json, captcha_token |-> ct, access_token |-> a,
     refresh_token |-> r, sub |-> u, error |-> e]

NoAuthBody == AuthBody(FALSE, Absent, Absent, Absent, Absent, Absent)

\* What the /v1/shield/captcha/init endpoint answers to postJSON.
CaptchaResponses ==
    { [kind |-> "neterr", status |-> 0,   body |-> NoAuthBody],
      [kind |-> "http",   status |-> 502, body |-> NoAuthBody],
      [kind |-> "http",   status |-> 200,
       body |-> AuthBody(TRUE, "ct1", Absent, Absent, Absent, Absent)],
      [kind |-> "http",   status |-> 200,
       body |-> AuthBody(TRUE, "", Absent, Absent, Absent, Absent)],
      [kind |-> "http",   status |-> 200,
       body |-> AuthBody(TRUE, Absent, Absent, Absent, Absent, Absent)] }

\* What the /v1/auth/signin endpoint answers to postForm.
SigninResponses ==
    { [kind |-> "neterr",  status |-> 0,   body |-> NoAuthBody],
      [kind |-> "readerr", status |-> 0,   body |-> NoAuthBody],
      [kind |-> "http",    status |-> 200,
       body |-> AuthBody(TRUE, Absent, "a1", "r1", "u1", Absent)],
      [kind |-> "http",    status |-> 200,
       body |-> AuthBody(TRUE, Absent, "a1", Absent, Absent, Absent)],
      [kind |-> "http",    status |-> 200,
       body |-> AuthBody(TRUE, Absent, "", "r1", Absent, Absent)],
      [kind |-> "http",    status |-> 200,
       body |-> AuthBody(TRUE, Absent, Absent, Absent, Absent, Absent)],
      [kind |-> "http",    status |-> 400,
       body |-> AuthBody(TRUE, Absent, Absent, Absent, Absent,
                         InvalidAccountOrPassword)] }

\* What a drive endpoint answers to one request of postJSON, patchJSON,
\* postForm or Delete.
OperationResponses ==
    { [kind |-> "neterr", status |-> 0,   body |-> NoBody],
      [kind |-> "http",   status |-> 200, body |-> EmptyObject],
      [kind |-> "http",   status |-> 204, body |-> NoBody],
      [kind |-> "http",   status |-> 400, body |-> NoBody],
      [kind |-> "http",   status |-> 401, body |-> TokenExpiredBody],
      [kind |-> "http",   status |-> 500,
       body |-> [json |-> TRUE, error |-> "server_error",
                 error_description |-> "internal", error_code |-> 0]] }

OperationKinds == {"postJSON", "patchJSON", "postForm", "Delete"}

\* Strings handed to SetEncodedToken: the empty string, a string that is not
\* base64, base64 of a text that is not JSON, base64 of an object without a
\* refresh_token, base64 of a complete pair.
EncodedTokens ==
    { <<>>,
      <<"invalid_base64_token!!!">>,
      <<"base64", "not json">>,
      <<"base64", "access_token", "a2">>,
      <<"base64", "access_token", "a2", "refresh_token", "r2">> }

\* ------------------------------------------------------------------ errors
ErrInvalidEncodedToken == PikpakException("invalid encoded token", NilError)

ErrCaptchaTokenFailed == PikpakException("captcha_token get failed", NilError)

ErrUsernamePasswordRequired ==
    PikpakException("username and password are required", NilError)

\* an error made by fmt.Errorf and returned as it is
PlainError(err) == [message |-> "", cause |-> err]

\* fmt.Errorf("delete failed: %s", string(respBody))
DeleteError(body) == [kind |-> "delete", status |-> 0, body |-> body, text |-> <<>>]

\* --------------------------------------------------------------- NewClient
\* the device id NewClient leaves in the client: the one WithDeviceID gave,
\* else the md5 of username+password when both are set, else the empty string
NewClientDeviceID(given, user, pass) ==
    IF given = <<>> /\ user # "" /\ pass # ""
    THEN <<"md5", user, pass>>
    ELSE given

\* ------------------------------------------------------------- token codec
\* base64.StdEncoding.DecodeString succeeds
IsBase64(enc) == Len(enc) >= 1 /\ enc[1] = "base64"

\* json.Unmarshal into TokenData succeeds: the decoded text is an object, a
\* sequence of key/value pairs
IsJSONObject(enc) == Len(enc) % 2 = 1

\* the value json.Unmarshal leaves in a TokenData field: the value of the key,
\* the zero value "" when the object has no such key
Field(enc, key) ==
    LET keys == { i \in 1..((Len(enc) - 1) \div 2) : enc[2 * i] = key } IN
    IF keys = {} THEN "" ELSE enc[2 * (CHOOSE i \in keys : TRUE) + 1]

TokenData(a, r, err) == [access |-> a, refresh |-> r, err |-> err]

\* utils.DecodeToken without the test for empty fields
DecodeToken_NoEmptyCheck(enc) ==
    IF ~IsBase64(enc)
    THEN TokenData("", "", MessageError(<<"failed to decode token">>))
    ELSE IF ~IsJSONObject(enc)
    THEN TokenData("", "", MessageError(<<"failed to unmarshal token data">>))
    ELSE TokenData(Field(enc, "access_token"), Field(enc, "refresh_token"), NilError)

\* utils.DecodeToken
DecodeToken(enc) ==
    IF ~IsBase64(enc)
    THEN TokenData("", "", MessageError(<<"failed to decode token">>))
    ELSE IF ~IsJSONObject(enc)
    THEN TokenData("", "", MessageError(<<"failed to unmarshal token data">>))
    ELSE LET a == Field(enc, "access_token")
             r == Field(enc, "refresh_token")
         IN IF a = "" \/ r = ""
            THEN TokenData("", "", MessageError(
                     <<"invalid token: missing access_token or refresh_token">>))
            ELSE TokenData(a, r, NilError)

\* Client.DecodeToken on session s
ClientDecodeToken(s) ==
    IF s.encodedToken = <<>>
    THEN [err |-> ErrInvalidEncodedToken, session |-> s]
    ELSE LET d == DecodeToken(s.encodedToken) IN
         IF d.err # NilError
         THEN [err |-> PikpakException("failed to decode token", d.err), session |-> s]
         ELSE [err |-> NoError,
               session |-> Session(d.access, d.refresh, s.userID, s.encodedToken)]

\* Client.EncodeToken on session s; json.Marshal of two strings cannot fail
ClientEncodeToken(s) ==
    [err |-> NoError,
     session |-> Session(s.accessToken, s.refreshToken, s.userID,
                         EncodeToken(s.accessToken, s.refreshToken))]

\* --------------------------------------------------- single-request helpers
\* Client.postJSON: one request, no retry, the status code is not inspected.
postJSON(resp) ==
    CASE resp.kind = "neterr"  -> [err |-> PikpakException("request failed", TransportError),
                                   data |-> NoBody]
      [] resp.kind = "readerr" -> [err |-> PikpakException("failed to read response", ReadError),
                                   data |-> NoBody]
      [] OTHER ->
            IF ~resp.body.json
            THEN [err |-> PikpakException("failed to unmarshal response", SyntaxError),
                  data |-> NoBody]
            ELSE [err |-> NoError, data |-> resp.body]

\* Client.patchJSON: one request, no retry, the status code is not inspected.
patchJSON(resp) ==
    CASE resp.kind = "neterr"  -> [err |-> PikpakException("request failed", TransportError),
                                   data |-> NoBody]
      [] resp.kind = "readerr" -> [err |-> PikpakException("failed to read response", ReadError),
                                   data |-> NoBody]
      [] OTHER ->
            IF ~resp.body.json
            THEN [err |-> PikpakException("failed to unmarshal response", SyntaxError),
                  data |-> NoBody]
            ELSE [err |-> NoError, data |-> resp.body]

\* Client.Delete: one request, no retry; any status but 200 and 204 is an
\* error, the answer to a success is the map {"status": "ok"}, which has no
\* error and no error_code entry.
Delete(resp) ==
    IF resp.kind = "neterr"
    THEN [err |-> PikpakException("request failed", TransportError), data |-> NoBody]
    ELSE IF resp.status # 200 /\ resp.status # 204
    THEN [err |-> PlainError(DeleteError(resp.body)), data |-> NoBody]
    ELSE [err |-> NoError, data |-> EmptyObject]

\* the helper an operation of the given kind runs
RunOperation(kind, resp) ==
    CASE kind = "postJSON"  -> postJSON(resp)
      [] kind = "patchJSON" -> patchJSON(resp)
      [] kind = "postForm"  -> postForm(resp)
      [] OTHER              -> Delete(resp)

\* ------------------------------------------------------------------- Login
\* Client.CaptchaInit: builds the request and hands it to postJSON
CaptchaInit(cr) == postJSON(cr)

\* one request of Login: the endpoint, the captcha_token form field it
\* carried ("" when the request has no such field) and the answer
Request(endpoint, ct, resp) ==
    [endpoint |-> endpoint, captcha_token |-> ct, resp |-> resp]

\* c.username == "" && c.password == ""
CredentialsMissing_Both(user, pass) == user = "" /\ pass = ""

\* c.username == "" || c.password == ""
CredentialsMissing(user, pass) == user = "" \/ pass = ""

\* !ok alone: any string, the empty one too, is taken as a captcha token
CaptchaTokenMissing_AbsentOnly(data) == data.captcha_token = Absent

\* !ok || captchaToken == ""
CaptchaTokenMissing(data) ==
    data.captcha_token = Absent \/ data.captcha_token = ""

\* a Login that signs the session out when it fails
LoginResult_ResetOnError(err, s, ct, requests) ==
    [err |-> err,
     session |-> IF err # NoError THEN Session("", "", "", <<>>) ELSE s,
     captchaToken |-> ct, net |-> requests]

\* what Login hands back: its error, the session and captcha token it leaves
\* and the requests it has sent
LoginResult(err, s, ct, requests) ==
    [err |-> err, session |-> s, captchaToken |-> ct, net |-> requests]

\* Login that stores the access token alone
Login_AccessTokenOnly(s, ct0, user, pass, cr, sr) ==
    IF CredentialsMissing(user, pass)
    THEN LoginResult(ErrUsernamePasswordRequired, s, ct0, <<>>)
    ELSE
        LET c  == CaptchaInit(cr)
            n1 == <<Request("captcha_init", "", cr)>>
        IN
        IF c.err # NoError THEN LoginResult(c.err, s, ct0, n1)
        ELSE IF CaptchaTokenMissing(c.data)
        THEN LoginResult(ErrCaptchaTokenFailed, s, ct0, n1)
        ELSE
            LET ct == c.data.captcha_token
                f  == postForm(sr)
                n2 == Append(n1, Request("signin", ct, sr))
            IN
            IF f.err # NoError THEN LoginResult(f.err, s, ct, n2)
            ELSE IF f.data.access_token = Absent
            THEN LoginResult(PikpakException("login failed: no access_token", NilError),
                             s, ct, n2)
            ELSE
                LET a == f.data.access_token
                IN LoginResult(NoError,
                               Session(a, s.refreshToken, s.userID,
                                       EncodeToken(a, s.refreshToken)),
                               ct, n2)

\* Client.Login on session s with stored captcha token ct0, the captcha-init
\* endpoint answering cr and the sign-in endpoint answering sr.
Login(s, ct0, user, pass, cr, sr) ==
    IF CredentialsMissing(user, pass)
    THEN LoginResult(ErrUsernamePasswordRequired, s, ct0, <<>>)
    ELSE
        LET c  == CaptchaInit(cr)
            n1 == <<Request("captcha_init", "", cr)>>
        IN
        IF c.err # NoError THEN LoginResult(c.err, s, ct0, n1)
        ELSE IF CaptchaTokenMissing(c.data)
        THEN LoginResult(ErrCaptchaTokenFailed, s, ct0, n1)
        ELSE
            LET ct == c.data.captcha_token
                f  == postForm(sr)
                n2 == Append(n1, Request("signin", ct, sr))
            IN
            IF f.err # NoError THEN LoginResult(f.err, s, ct, n2)
            ELSE IF f.data.access_token = Absent
            THEN LoginResult(PikpakException("login failed: no access_token", NilError),
                             s, ct, n2)
            ELSE
                LET a == f.data.access_token
                    r == IF f.data.refresh_token # Absent THEN f.data.refresh_token
                                                          ELSE s.refreshToken
                    u == IF f.data.sub # Absent THEN f.data.sub ELSE s.userID
                IN LoginResult(NoError, Session(a, r, u, EncodeToken(a, r)), ct, n2)

\* -------------------------------------------------------------------- Init
\* NewClient with any of WithUsername, WithPassword, WithDeviceID,
\* WithAccessToken, WithRefreshToken, WithTokenRefreshCallback.
InitAuth ==
    /\ maxRetries = DefaultMaxRetries
    /\ tokenRefreshCallback \in BOOLEAN
    /\ \E p \in {<<"", "">>, <<"a0", "">>, <<"a0", "r0">>} :
          accessToken = p[1] /\ refreshToken = p[2]
    /\ userID = ""
    /\ encodedToken = <<>>
    /\ pc = "idle"
    /\ attempt = 0
    /\ lastError = NilError
    /\ reqAuth = getHeaders("")
    /\ result = NoResult
    /\ cancelled = FALSE
    /\ slept = <<>>
    /\ sent = 0
    /\ last = NoExchange
    /\ firstRefreshed = FALSE
    /\ onlyTransportErrors = TRUE
    /\ calls = 0
    /\ directs = 0
    /\ username \in {"", "user@example.com"}
    /\ password \in {"", "secret"}
    /\ \E given \in {<<>>, <<"dev1">>} :
          deviceID = NewClientDeviceID(given, username, password)
    /\ captchaToken = ""
    /\ op = "none"
    /\ ops = 0
    /\ net = <<>>
    /\ OthersAtRest

\* ----------------------------------------------------------------- actions
\* what an operation outside the retry loop leaves in the call's variables
OutsideLoop ==
    /\ firstRefreshed' = FALSE
    /\ onlyTransportErrors' = TRUE
    /\ UNCHANGED <<config, pc, attempt, lastError, reqAuth, cancelled, slept,
                   calls, directs, username, password, deviceID, others>>

\* The caller invokes Login.
CallLogin ==
    /\ pc = "idle"
    /\ ops < MaxOps
    /\ \E cr \in CaptchaResponses, sr \in SigninResponses :
          LET r == Login(CurrentSession, captchaToken, username, password, cr, sr) IN
          /\ SetSession(r.session)
          /\ captchaToken' = r.captchaToken
          /\ net' = r.net
          /\ result' = IF r.err # NoError THEN Failure(r.err) ELSE Success(NoBody)
          /\ sent' = Len(r.net)
    /\ last' = NoExchange
    /\ op' = "Login"
    /\ ops' = ops + 1
    /\ OutsideLoop

\* The caller invokes DecodeToken.
CallDecodeToken ==
    /\ pc = "idle"
    /\ ops < MaxOps
    /\ LET r == ClientDecodeToken(CurrentSession) IN
          /\ SetSession(r.session)
          /\ result' = IF r.err # NoError THEN Failure(r.err) ELSE Success(NoBody)
    /\ sent' = 0
    /\ last' = NoExchange
    /\ op' = "DecodeToken"
    /\ ops' = ops + 1
    /\ net' = <<>>
    /\ UNCHANGED captchaToken
    /\ OutsideLoop

\* The caller invokes EncodeToken.
CallEncodeToken ==
    /\ pc = "idle"
    /\ ops < MaxOps
    /\ LET r == ClientEncodeToken(CurrentSession) IN
          /\ SetSession(r.session)
          /\ result' = IF r.err # NoError THEN Failure(r.err) ELSE Success(NoBody)
    /\ sent' = 0
    /\ last' = NoExchange
    /\ op' = "EncodeToken"
    /\ ops' = ops + 1
    /\ net' = <<>>
    /\ UNCHANGED captchaToken
    /\ OutsideLoop

\* SetEncodedToken that also decodes the string into the token fields
SetEncodedToken_AndDecode ==
    /\ pc = "idle"
    /\ ops < MaxOps
    /\ \E enc \in EncodedTokens :
          LET r == ClientDecodeToken(Session(accessToken, refreshToken, userID, enc)) IN
          SetSession(r.session)
    /\ result' = Success(NoBody)
    /\ sent' = 0
    /\ last' = NoExchange
    /\ op' = "SetEncodedToken"
    /\ ops' = ops + 1
    /\ net' = <<>>
    /\ UNCHANGED captchaToken
    /\ OutsideLoop

\* The caller hands a stored string to SetEncodedToken.
SetEncodedToken ==
    /\ pc = "idle"
    /\ ops < MaxOps
    /\ \E enc \in EncodedTokens : encodedToken' = enc
    /\ result' = Success(NoBody)
    /\ sent' = 0
    /\ last' = NoExchange
    /\ op' = "SetEncodedToken"
    /\ ops' = ops + 1
    /\ net' = <<>>
    /\ UNCHANGED <<accessToken, refreshToken, userID, captchaToken>>
    /\ OutsideLoop

\* The caller runs one operation that goes through postJSON, patchJSON,
\* postForm or Delete.
CallOperation ==
    /\ pc = "idle"
    /\ ops < MaxOps
    /\ \E kind \in OperationKinds, resp \in OperationResponses :
          LET r == RunOperation(kind, resp) IN
          /\ op' = kind
          /\ result' = IF r.err # NoError THEN Failure(r.err) ELSE Success(r.data)
          /\ last' = Exchange(resp, NoRefresh, 0, "none",
                              getHeaders(accessToken), accessToken)
    /\ sent' = 1
    /\ ops' = ops + 1
    /\ net' = <<>>
    /\ UNCHANGED <<session, captchaToken>>
    /\ OutsideLoop

NextAuth ==
    \/ CallLogin
    \/ DirectRefresh
    \/ CallDecodeToken
    \/ CallEncodeToken
    \/ SetEncodedToken
    \/ CallOperation

SpecAuth == InitAuth /\ [][NextAuth]_vars


\* -------------------------------------------------------------- properties
\* C11: an operation of any kind that receives a non-success HTTP response
\* other than the token-expired one returns an error to the caller, never a
\* successful result.
C11_NonSuccessIsAnError ==
    ( /\ op \in OperationKinds
      /\ last.resp.kind = "http"
      /\ last.resp.status \notin 200..299
      /\ ~TokenExpiredResponse(last.resp) )
    => ~result.ok

\* C12: an operation based on POST, PATCH or DELETE that receives the
\* access-token-expired response calls RefreshAccessToken and is sent again.
C12_OperationRefreshesAndResends ==
    (op \in OperationKinds /\ TokenExpiredResponse(last.resp))
    => (last.refresh.kind # "none" /\ sent >= 2)

\* C13: a transport failure of a request of Login is followed by another
\* request to the same endpoint, and a transport failure of the refresh-token
\* exchange ends RefreshAccessToken only with the error of the exhausted
\* retry loop (the retry bound of the session is DefaultMaxRetries).
C13_AuthRequestsAreRetried ==
    /\ op = "Login" =>
          \A i \in DOMAIN net :
             net[i].resp.kind = "neterr"
             => \E j \in DOMAIN net : j > i /\ net[j].endpoint = net[i].endpoint
    /\ (op = "RefreshAccessToken" /\ pc = "idle" /\ last.refresh.kind = "neterr")
       => result.error.message = "max retries reached"

\* C14: when the sign-in request is answered with the invalid-credentials
\* sentinel, Login returns ErrInvalidUsernamePassword.
C14_LoginReportsInvalidCredentials ==
    ( /\ op = "Login"
      /\ Len(net) = 2
      /\ net[2].endpoint = "signin"
      /\ net[2].resp.kind = "http"
      /\ net[2].resp.body.json
      /\ net[2].resp.body.error = InvalidAccountOrPassword )
    => result = Failure(ErrInvalidUsernamePassword)

\* C15: RefreshAccessToken called while the refresh token of the session is
\* empty returns an error, whatever the token endpoint answers.
C15_EmptyRefreshTokenIsAnError ==
    [][ (directs' = directs + 1 /\ refreshToken = "" /\ pc' = "idle")
        => ~result'.ok ]_vars

\* C16: Login called while username or password is empty returns
\* ErrUsernamePasswordRequired, sends no request and leaves the session as
\* it was.
C16_LoginRequiresCredentials ==
    [][ (op' = "Login" /\ ops' = ops + 1 /\ (username = "" \/ password = ""))
        => /\ result' = Failure(ErrUsernamePasswordRequired)
           /\ net' = <<>>
           /\ sent' = 0
           /\ UNCHANGED <<session, captchaToken, username, password, deviceID>> ]_vars

W16_LoginWithoutPassword ==
    /\ op = "Login"
    /\ username # "" /\ password = ""
    /\ result = Failure(ErrUsernamePasswordRequired)
    /\ net = <<>>

\* C17: a sign-in request is the second request of Login, sent after
\* captcha-init answered with a non-empty captcha_token and carrying that
\* token; when the captcha-init answer has no captcha_token or an empty one,
\* Login returns ErrCaptchaTokenFailed and sends no sign-in request.
C17_SigninOnlyWithCaptchaToken ==
    op = "Login" =>
        /\ \A i \in DOMAIN net :
              net[i].endpoint = "signin"
              => /\ i = 2
                 /\ net[1].endpoint = "captcha_init"
                 /\ net[1].resp.kind = "http"
                 /\ net[1].resp.body.json
                 /\ net[1].resp.body.captcha_token \notin {Absent, ""}
                 /\ net[i].captcha_token = net[1].resp.body.captcha_token
        /\ ( /\ Len(net) >= 1
             /\ net[1].resp.kind = "http"
             /\ net[1].resp.body.json
             /\ net[1].resp.body.captcha_token \in {Absent, ""} )
           => (result = Failure(ErrCaptchaTokenFailed) /\ Len(net) = 1)

W17_SigninSentWithCaptchaToken ==
    /\ op = "Login"
    /\ Len(net) = 2
    /\ net[2].endpoint = "signin"
    /\ net[2].captcha_token = "ct1"

\* the Login of C18: captcha-init answered {captcha_token: "ct1"}, sign-in
\* answered {access_token: "a1", refresh_token: "r1", sub: "u1"}
LoginOfA1R1U1 ==
    /\ op = "Login"
    /\ result.ok
    /\ Len(net) = 2
    /\ net[1].resp.body.captcha_token = "ct1"
    /\ net[2].resp.body = AuthBody(TRUE, Absent, "a1", "r1", "u1", Absent)

\* C18: after that Login the session holds a1, r1 and u1, and DecodeToken on
\* a fresh session given the encodedToken restores the pair (a1, r1).
C18_LoginStoresAndEncodesTokens ==
    LoginOfA1R1U1 =>
        /\ accessToken = "a1"
        /\ refreshToken = "r1"
        /\ userID = "u1"
        /\ LET fresh == ClientDecodeToken(Session("", "", "", encodedToken)) IN
              /\ fresh.err = NoError
              /\ fresh.session.accessToken = "a1"
              /\ fresh.session.refreshToken = "r1"

W18_LoginOverOlderTokens ==
    /\ LoginOfA1R1U1
    /\ accessToken = "a1"
    /\ encodedToken = EncodeToken("a1", "r1")

\* C19 as stated: in every reachable state a non-empty encodedToken decodes
\* to a pair whose access token and refresh token are both non-empty.
C19_EncodedTokenAlwaysDecodes ==
    encodedToken # <<>> =>
        LET d == DecodeToken(encodedToken) IN
        d.err = NilError /\ d.access # "" /\ d.refresh # ""

\* C19 amended: in every reachable state, a non-empty encodedToken that
\* decodes without error decodes to a pair whose access token and refresh
\* token are both non-empty.
C19_DecodedPairIsComplete ==
    encodedToken # <<>> =>
        LET d == DecodeToken(encodedToken) IN
        d.err = NilError => (d.access # "" /\ d.refresh # "")

W19_StoredTokenDecoded ==
    /\ op = "DecodeToken"
    /\ result.ok
    /\ encodedToken # <<>>
    /\ accessToken = DecodeToken(encodedToken).access
    /\ refreshToken = DecodeToken(encodedToken).refresh

\* C20: after NewClient, with any options or none, and from then on,
\* deviceID is non-empty.
C20_DeviceIDNonEmpty == deviceID # <<>>


C23_CreatedIsSuccess ==
    ( /\ InCall
      /\ last.resp.kind = "http"
      /\ last.resp.status = 201
      /\ last.resp.body.json )
    => (pc = "done" /\ result = Success(last.resp.body))

\* C24: a response with status 200 whose body is not JSON ends the call at
\* that attempt, and the call returns the unmarshal error; when it is the
\* answer to the first attempt, one request has been sent.
C24_UnparsableSuccessIsTerminal ==
    ( /\ InCall
      /\ last.resp.kind = "http"
      /\ last.resp.status = StatusOK
      /\ ~last.resp.body.json )
    => /\ pc = "done"
       /\ sent = attempt + 1
       /\ getJSON(result) =
             Failure(PikpakException("failed to unmarshal response", SyntaxError))

W24_UnparsableFirstAnswer ==
    /\ pc = "done"
    /\ sent = 1
    /\ last.resp.kind = "http"
    /\ last.resp.status = StatusOK
    /\ ~last.resp.body.json
    /\ ~getJSON(result).ok

\* C25: with maxRetries = 0 a finished call has sent exactly one request,
\* and returns the response when that request was answered with 200.
C25_ZeroRetriesStillSendsOnce ==
    (maxRetries = 0 /\ pc = "done" /\ calls >= 1)
    => /\ sent = 1
       /\ (last.resp.kind = "http" /\ last.resp.status = StatusOK) => result.ok
       /\ ~(last.resp.kind = "http" /\ last.resp.status = StatusOK) => ~result.ok

\* C26: the i-th wait of a call is initialBackoff * 2^(i-1), the wait after
\* the failed attempt numbered i-1; with the default initialBackoff of 3s the
\* waits are 3s, 6s, 12s.
C26_BackoffDoubles ==
    /\ \A i \in DOMAIN slept : slept[i] = InitialBackoff * (2 ^ (i - 1))
    /\ Len(slept) = attempt
    /\ Len(slept) >= 3 => SubSeq(slept, 1, 3) = <<3, 6, 12>>

W26_ThreeWaits ==
    /\ pc = "done"
    /\ sent = 3
    /\ slept = <<3, 6, 12>>

\* C34: a call never returns the max-retries error straight after a refresh
\* that the token endpoint accepted: the request is sent again first.
C34_RefreshIsFollowedByResend ==
    (pc = "done" /\ sent >= 1 /\ result.error.message = "max retries reached")
    => ~(TokenExpiredResponse(last.resp) /\ RefreshAccepted(last.refresh))

\* C35: a call never sends more than maxRetries+1 requests, and it refreshes
\* only on an attempt it has sent; every attempt that is answered with the
\* token-expired sentinel and whose refresh is accepted uses up one of the
\* maxRetries attempts, and the call that ends on such an attempt returns an
\* error.
C35_BoundedRequestsAndRefreshes ==
    /\ [](InCall => (sent <= maxRetries + 1 /\ attempt <= sent))
    /\ [][( /\ pc = "loop"
            /\ sent' = sent + 1
            /\ TokenExpiredResponse(last'.resp)
            /\ RefreshAccepted(last'.refresh)
            /\ last'.cb # "panics" )
          => ( /\ attempt' = attempt + 1
               /\ attempt' <= maxRetries
               /\ pc' = (IF attempt' < maxRetries THEN "loop" ELSE "done")
               /\ pc' = "done" => ~result'.ok )]_vars

W35_EveryAttemptRefreshed ==
    /\ pc = "done"
    /\ maxRetries = 2
    /\ sent = 2
    /\ firstRefreshed
    /\ TokenExpiredResponse(last.resp)
    /\ RefreshAccepted(last.refresh)
    /\ ~result.ok

\* C39: a finished call has slept fewer times than it has sent requests: no
\* backoff wait follows the final attempt.
C39_NoSleepAfterFinalAttempt ==
    (pc = "done" /\ sent >= 1) => Len(slept) < sent

\* C36: after a Login that returned success the session's accessToken is not
\* the empty string.
C36_LoginLeavesAccessToken ==
    (op = "Login" /\ result.ok) => accessToken # ""

\* the step is a Login or a RefreshAccessToken that returns an error
ReturnsError ==
    /\ \/ op' = "Login" /\ ops' = ops + 1
       \/ op' = "RefreshAccessToken" /\ directs' = directs + 1
    /\ pc' = "idle"
    /\ ~result'.ok

\* C37: a Login or RefreshAccessToken that returns an error leaves
\* accessToken, refreshToken, userID and encodedToken as they were.
C37_FailureLeavesSessionAlone ==
    [][ReturnsError => UNCHANGED <<accessToken, refreshToken, userID,
                                   encodedToken>>]_vars

W37_SigninRejectedOverSession ==
    /\ op = "Login"
    /\ ~result.ok
    /\ Len(net) = 2
    /\ captchaToken = "ct1"
    /\ accessToken = "a0"
    /\ refreshToken = "r0"

\* C38: right after a Login or RefreshAccessToken that returned success,
\* encodedToken is the encoding of the session's accessToken and refreshToken.
C38_EncodedTokenOfCurrentPair ==
    (op \in {"Login", "RefreshAccessToken"} /\ pc = "idle" /\ result.ok)
    => encodedToken =
          <<"base64", "access_token", accessToken, "refresh_token", refreshToken>>

W38_EncodedAfterPartialAnswer ==
    /\ op = "RefreshAccessToken"
    /\ pc = "idle"
    /\ result.ok
    /\ accessToken = "a1"
    /\ refreshToken = "r0"
    /\ encodedToken = <<"base64", "access_token", "a1", "refresh_token", "r0">>


\* =============================================================== SpecToken
\* Package token: Encode and Decode as functions of their arguments.

\* a client that is constructed and not used
ClientAtRest ==
    /\ maxRetries = DefaultMaxRetries
    /\ tokenRefreshCallback = FALSE
    /\ accessToken = ""
    /\ refreshToken = ""
    /\ userID = ""
    /\ encodedToken = <<>>
    /\ pc = "idle"
    /\ attempt = 0
    /\ lastError = NilError
    /\ reqAuth = getHeaders("")
    /\ result = NoResult
    /\ cancelled = FALSE
    /\ slept = <<>>
    /\ sent = 0
    /\ last = NoExchange
    /\ firstRefreshed = FALSE
    /\ onlyTransportErrors = TRUE
    /\ calls = 0
    /\ directs = 0
    /\ username = ""
    /\ password = ""
    /\ deviceID = <<>>
    /\ captchaToken = ""
    /\ op = "none"
    /\ ops = 0
    /\ net = <<>>

\* ------------------------------------------------------------------ inputs
\* A Go string is a sequence of bytes.  The units told apart here: a plain
\* ASCII letter, the character '<', a byte that is not valid UTF-8, and the
\* replacement character U+FFFD (valid UTF-8).
Chars == {"t", "<", "\\xff", "U+FFFD"}

StringsUpTo(n) == UNION { [1..k -> Chars] : k \in 0..n }

\* token.Data
Data(a, r) == [present |-> TRUE, access |-> a, refresh |-> r]

\* ---------------------------------------------------------- encoding/json
\* json.Marshal of one unit of a string: '<' is written as its six-character
\* unicode escape, an invalid byte as the unicode escape of U+FFFD
MarshalChar(c) ==
    CASE c = "<"     -> "\\u003c"
      [] c = "\\xff" -> "\\ufffd"
      [] OTHER       -> c

\* json.Unmarshal that leaves the escapes of a JSON string as they are
UnmarshalChar_KeepEscapes(e) ==
    CASE e = "\\xff"   -> "U+FFFD"
      [] OTHER         -> e

\* json.Unmarshal of one unit of a JSON string: an escape yields its
\* character, an invalid byte is replaced by U+FFFD
UnmarshalChar(e) ==
    CASE e = "\\u003c" -> "<"
      [] e = "\\ufffd" -> "U+FFFD"
      [] e = "\\xff"   -> "U+FFFD"
      [] OTHER         -> e

MarshalString(str) == [i \in DOMAIN str |-> MarshalChar(str[i])]

UnmarshalString(js) == [i \in DOMAIN js |-> UnmarshalChar(js[i])]

\* a JSON text: an object with its members in order, or something else
Text(members) == [object |-> TRUE, members |-> members]

Member(key, value) == [key |-> key, value |-> value]

\* json.Marshal(Data{...}): the two fields under their json tags
Marshal(d) ==
    Text(<<Member("access_token", MarshalString(d.access)),
           Member("refresh_token", MarshalString(d.refresh))>>)

\* the value json.Unmarshal leaves in the field tagged key: that of the last
\* member with the key, the zero value "" when there is none
Lookup(text, key) ==
    LET at == { i \in DOMAIN text.members : text.members[i].key = key } IN
    IF at = {} THEN <<>>
    ELSE UnmarshalString(text.members[CHOOSE i \in at : \A j \in at : j <= i].value)

\* -------------------------------------------------------- encoding/base64
\* base64.StdEncoding.EncodeToString
Base64Encode(text) == [base64 |-> TRUE, text |-> text]

\* ------------------------------------------------------------ Encode/Decode
\* token.Encode; json.Marshal of two strings returns no error
Encode(a, r) == [err |-> NilError, str |-> Base64Encode(Marshal(Data(a, r)))]

\* Decode without the test for empty fields
Decode_NoEmptyCheck(str) ==
    IF ~str.base64
    THEN [err |-> MessageError(<<"failed to decode token">>), data |-> NoData]
    ELSE IF ~str.text.object
    THEN [err |-> MessageError(<<"failed to unmarshal token data">>), data |-> NoData]
    ELSE [err |-> NilError,
          data |-> Data(Lookup(str.text, "access_token"),
                        Lookup(str.text, "refresh_token"))]

\* token.Decode
Decode(str) ==
    IF ~str.base64
    THEN [err |-> MessageError(<<"failed to decode token">>), data |-> NoData]
    ELSE IF ~str.text.object
    THEN [err |-> MessageError(<<"failed to unmarshal token data">>), data |-> NoData]
    ELSE LET a == Lookup(str.text, "access_token")
             r == Lookup(str.text, "refresh_token")
         IN IF a = <<>> \/ r = <<>>
            THEN [err |-> MessageError(
                     <<"invalid token: missing access_token or refresh_token">>),
                  data |-> NoData]
            ELSE [err |-> NilError, data |-> Data(a, r)]

\* Strings read back from storage that Encode did not write: one that is not
\* base64, base64 of a text that is not a JSON object, base64 of
\* {"user_id":"test"}, base64 of objects with one of the two fields.
StoredStrings ==
    { NoEncoded,
      Base64Encode(NoText),
      Base64Encode(Text(<<Member("user_id", <<"t">>)>>)),
      Base64Encode(Text(<<Member("access_token", <<"t">>)>>)),
      Base64Encode(Text(<<Member("refresh_token", <<"t">>)>>)) }

\* -------------------------------------------------------------------- Init
InitToken ==
    /\ ClientAtRest
    /\ BusAtRest
    /\ RaceAtRest
    /\ DriveAtRest
    /\ ConfAtRest
    /\ \E a \in StringsUpTo(MaxLen), r \in StringsUpTo(MaxLen) :
          tokInput = Data(a, r)
    /\ tokEncoded = NoEncoded
    /\ tokDecoded = NoDecoded
    /\ tokPc = "start"

\* ----------------------------------------------------------------- actions
\* The caller encodes the pair.
CallEncode ==
    /\ tokPc = "start"
    /\ tokEncoded' = Encode(tokInput.access, tokInput.refresh).str
    /\ tokPc' = "encoded"
    /\ UNCHANGED <<client, bus, race, drive, conf, tokInput, tokDecoded>>

\* The caller reads a string from storage instead.
ReadStored ==
    /\ tokPc = "start"
    /\ tokEncoded' \in StoredStrings
    /\ tokPc' = "stored"
    /\ UNCHANGED <<client, bus, race, drive, conf, tokInput, tokDecoded>>

\* The caller decodes the string.
CallDecode ==
    /\ tokPc \in {"encoded", "stored"}
    /\ tokDecoded' = Decode(tokEncoded)
    /\ tokPc' = IF tokPc = "encoded" THEN "round trip" ELSE "decoded"
    /\ UNCHANGED <<client, bus, race, drive, conf, tokInput, tokEncoded>>

NextToken == CallEncode \/ ReadStored \/ CallDecode

SpecToken == InitToken /\ [][NextToken]_vars

\* -------------------------------------------------------------- properties
\* every member with the key has the empty string as its value (or there is
\* no such member)
EmptyOrMissing(text, key) ==
    \A i \in DOMAIN text.members :
       text.members[i].key = key => text.members[i].value = <<>>

\* C27: decoding a string that is base64 of a JSON object whose access_token
\* or refresh_token is empty or missing returns an error and no token pair.
C27_IncompleteTokenIsRejected ==
    ( /\ tokPc \in {"round trip", "decoded"}
      /\ tokEncoded.base64
      /\ tokEncoded.text.object
      /\ \/ EmptyOrMissing(tokEncoded.text, "access_token")
         \/ EmptyOrMissing(tokEncoded.text, "refresh_token") )
    => /\ tokDecoded.err =
             MessageError(<<"invalid token: missing access_token or refresh_token">>)
       /\ ~tokDecoded.data.present

W27_MissingFieldsRejected ==
    /\ tokPc = "decoded"
    /\ tokEncoded = Base64Encode(Text(<<Member("user_id", <<"t">>)>>))
    /\ tokDecoded.err # NilError

\* C28 as stated: for all non-empty strings access and refresh,
\* Decode(Encode(access, refresh)) returns exactly (access, refresh).
C28_RoundTrip ==
    ( /\ tokPc = "round trip"
      /\ tokInput.access # <<>>
      /\ tokInput.refresh # <<>> )
    => (tokDecoded.err = NilError /\ tokDecoded.data = tokInput)

\* the string is valid UTF-8
ValidUTF8(str) == \A i \in DOMAIN str : str[i] # "\\xff"

\* C28 amended: for all non-empty strings access and refresh that are valid
\* UTF-8, Decode(Encode(access, refresh)) returns exactly (access, refresh).
C28_RoundTripOfValidUTF8 ==
    ( /\ tokPc = "round trip"
      /\ tokInput.access # <<>>
      /\ tokInput.refresh # <<>>
      /\ ValidUTF8(tokInput.access)
      /\ ValidUTF8(tokInput.refresh) )
    => (tokDecoded.err = NilError /\ tokDecoded.data = tokInput)

W28_EscapedCharRestored ==
    /\ tokPc = "round trip"
    /\ tokInput.access = <<"t", "<">>
    /\ tokInput.refresh = <<"U+FFFD">>
    /\ tokDecoded.data = tokInput


\* =============================================================== SpecEvent
\* Package event: EventBus with handlers that increment a shared variable,
\* as the handlers of event_test.go do.

\* An EventHandler is a func value: the code it runs (what
\* reflect.ValueOf(h).Pointer() returns) and the closure it belongs to.  Two
\* closures made from one function literal share the code.
EventHandlers ==
    { [fn |-> "f", closure |-> 1],
      [fn |-> "f", closure |-> 2] }

\* reflect.ValueOf(a).Pointer() == reflect.ValueOf(b).Pointer()
SamePointer(a, b) == a.fn = b.fn

handlerWrapper(id, handler) == [id |-> id, handler |-> handler]

\* EventBus.Subscribe: the wrappers of the type after the call
Subscribe(hs, next, eventType, handler) ==
    [hs EXCEPT ![eventType] = Append(@, handlerWrapper(next, handler))]

\* append(handlers[:i], handlers[i+1:]...)
RemoveAt(seq, i) == SubSeq(seq, 1, i - 1) \o SubSeq(seq, i + 1, Len(seq))

\* EventBus.Unsubscribe: the first wrapper whose handler has the pointer of
\* the given one is removed
Unsubscribe(hs, eventType, handler) ==
    LET ws    == hs[eventType]
        match == { i \in DOMAIN ws : SamePointer(ws[i].handler, handler) }
    IN IF match = {} THEN hs
       ELSE [hs EXCEPT ![eventType] =
                RemoveAt(ws, CHOOSE i \in match : \A j \in match : i <= j)]

\* one `go wrapper.handler(event)`: the goroutine before its first step
Goroutine(k, eventType, w) ==
    [pub |-> k, id |-> w.id, type |-> eventType, handler |-> w.handler,
     pc |-> "spawned", tmp |-> 0]

\* EventBus.Publish, the k-th of the bus: one goroutine per wrapper of the
\* event's type
Publish(hs, eventType, k) ==
    { Goroutine(k, eventType, hs[eventType][i]) : i \in DOMAIN hs[eventType] }

\* -------------------------------------------------------------------- Init
InitEvent ==
    /\ ClientAtRest
    /\ CodecAtRest
    /\ RaceAtRest
    /\ DriveAtRest
    /\ ConfAtRest
    /\ BusAtRest

\* ----------------------------------------------------------------- actions
CallSubscribe ==
    /\ busCalls < MaxBusCalls
    /\ \E t \in EventTypes, h \in EventHandlers :
          /\ handlers' = Subscribe(handlers, nextHandlerID, t, h)
          /\ removed' = removed \ {<<t, h>>}
    /\ nextHandlerID' = nextHandlerID + 1
    /\ busCalls' = busCalls + 1
    /\ UNCHANGED <<client, codec, race, drive, conf, goroutines, count, event, published>>

CallUnsubscribe ==
    /\ busCalls < MaxBusCalls
    /\ \E t \in EventTypes, h \in EventHandlers :
          /\ handlers' = Unsubscribe(handlers, t, h)
          /\ removed' = removed \cup {<<t, h>>}
    /\ busCalls' = busCalls + 1
    /\ UNCHANGED <<client, codec, race, drive, conf, nextHandlerID, goroutines, count, event, published>>

CallPublish ==
    /\ busCalls < MaxBusCalls
    /\ \E t \in EventTypes :
          /\ goroutines' = goroutines \cup Publish(handlers, t, published + 1)
          /\ event' = t
    /\ published' = published + 1
    /\ busCalls' = busCalls + 1
    /\ UNCHANGED <<client, codec, race, drive, conf, handlers, nextHandlerID, count, removed>>

\* A handler's goroutine takes its next step: count++ is a load of count
\* followed by a store, with no synchronisation between goroutines.
RunHandler ==
    \E g \in goroutines :
       /\ g.pc # "done"
       /\ IF g.pc = "spawned"
          THEN /\ goroutines' = (goroutines \ {g})
                                   \cup {[g EXCEPT !.pc = "loaded", !.tmp = count]}
               /\ UNCHANGED count
          ELSE /\ goroutines' = (goroutines \ {g}) \cup {[g EXCEPT !.pc = "done"]}
               /\ count' = g.tmp + 1
       /\ UNCHANGED <<client, codec, race, drive, conf, handlers, nextHandlerID, event, published,
                      removed, busCalls>>

NextEvent == CallSubscribe \/ CallUnsubscribe \/ CallPublish \/ RunHandler

SpecEvent == InitEvent /\ [][NextEvent]_vars

\* -------------------------------------------------------------- properties
\* the goroutines a step has started
Started == goroutines' \ goroutines

\* C29: a Publish starts exactly one invocation for every registration of
\* the event's type that exists at the time, with the registered handler, and
\* once the invocations have run the effects of all of them are there: the
\* variable they increment has been incremented once per invocation.
C29_EveryRegistrationInvokedOnce ==
    /\ [][ published' = published + 1
           => LET ws == handlers[event'] IN
              /\ Cardinality(Started) = Len(ws)
              /\ \A i \in DOMAIN ws :
                    \E g \in Started : /\ g.id = ws[i].id
                                       /\ g.handler = ws[i].handler
                                       /\ g.type = event'
                                       /\ g.pub = published' ]_vars
    /\ []( (\A g \in goroutines : g.pc = "done") => count = Cardinality(goroutines) )

\* C30: a Publish of an event of type T starts no invocation of a handler h
\* for which Unsubscribe(T, h) has returned (and which has not been
\* subscribed to T again since).
C30_NoInvocationAfterUnsubscribe ==
    [][ published' = published + 1
        => \A g \in Started : <<g.type, g.handler>> \notin removed ]_vars


\* ================================================================ SpecRace
\* Calls made concurrently, from several goroutines, on one Client.  Every
\* read and write of a session field is a step of its own, in the order of
\* the statements of getHeaders and RefreshAccessToken.

\* what the token endpoint answers to the refresh request of call p
RaceAnswers(p) ==
    { [kind |-> "http",
       body |-> [json |-> TRUE, access_token |-> <<"a1", "a2", "a3">>[p],
                 refresh_token |-> <<"r1", "r2", "r3">>[p], sub |-> "u1"]],
      [kind |-> "http",
       body |-> [json |-> TRUE, access_token |-> <<"a1", "a2", "a3">>[p],
                 refresh_token |-> Absent, sub |-> Absent]],
      [kind |-> "neterr", body |-> NoTokenBody] }

\* call q is inside RefreshAccessToken, after `c.accessToken = accessToken`
\* and before the refresh_token of the answer is looked at
MidRefresh(q) == procs[q].pc = "stored access"

\* a Client whose fields are guarded by a mutex held by RefreshAccessToken
Unlocked_Mutex(p) == \A q \in Procs \ {p} : ~MidRefresh(q)

\* what a call waits for before it reads a session field: nothing, Client
\* has no lock
Unlocked(p) == TRUE

\* -------------------------------------------------------------------- Init
\* a session after Login, no call made yet
InitRace ==
    /\ maxRetries = DefaultMaxRetries
    /\ tokenRefreshCallback = FALSE
    /\ accessToken = "a0"
    /\ refreshToken = "r0"
    /\ userID = "u0"
    /\ encodedToken = EncodeToken("a0", "r0")
    /\ pc = "idle"
    /\ attempt = 0
    /\ lastError = NilError
    /\ reqAuth = getHeaders("")
    /\ result = NoResult
    /\ cancelled = FALSE
    /\ slept = <<>>
    /\ sent = 0
    /\ last = NoExchange
    /\ firstRefreshed = FALSE
    /\ onlyTransportErrors = TRUE
    /\ calls = 0
    /\ directs = 0
    /\ username = "user@example.com"
    /\ password = "secret"
    /\ deviceID = <<"md5", "user@example.com", "secret">>
    /\ captchaToken = "ct1"
    /\ op = "Login"
    /\ ops = 1
    /\ net = <<>>
    /\ CodecAtRest
    /\ BusAtRest
    /\ DriveAtRest
    /\ ConfAtRest
    /\ procs = [p \in Procs |-> [NoProc EXCEPT !.pc = "idle"]]

\* ----------------------------------------------------------------- actions
RaceFrame == UNCHANGED <<config, call, history, login, codec, bus, drive, conf>>

\* doRequest of call p reads c.accessToken in getHeaders and sends.
BuildHeaders(p) ==
    /\ procs[p].pc = "idle"
    /\ Unlocked(p)
    /\ procs' = [procs EXCEPT ![p].pc = "sent",
                              ![p].auth = getHeaders(accessToken).bearer]
    /\ UNCHANGED session
    /\ RaceFrame

\* The request of call p is answered: with 200, and the call returns, or
\* with error_code 16.
Answer(p) ==
    /\ procs[p].pc = "sent"
    /\ \E next \in {"done", "expired"} : procs' = [procs EXCEPT ![p].pc = next]
    /\ UNCHANGED session
    /\ RaceFrame

\* RefreshAccessToken of call p reads c.refreshToken into the form and posts it.
BuildRefreshForm(p) ==
    /\ procs[p].pc = "expired"
    /\ Unlocked(p)
    /\ procs' = [procs EXCEPT ![p].pc = "posted", ![p].form = refreshToken]
    /\ UNCHANGED session
    /\ RaceFrame

\* postForm of call p returns; without an access_token the call returns the
\* error, with one RefreshAccessToken stores it: c.accessToken = accessToken.
StoreAccessToken(p) ==
    /\ procs[p].pc = "posted"
    /\ \E rr \in RaceAnswers(p) :
          LET f == postForm(rr) IN
          IF f.err # NoError
          THEN /\ procs' = [procs EXCEPT ![p].pc = "done"]
               /\ UNCHANGED session
          ELSE /\ procs' = [procs EXCEPT ![p].pc = "stored access", ![p].answer = rr]
               /\ accessToken' = f.data.access_token
               /\ UNCHANGED <<refreshToken, userID, encodedToken>>
    /\ RaceFrame

\* c.refreshToken = refreshToken and c.userID = sub, each when the answer has
\* the field
StoreRefreshToken(p) ==
    /\ procs[p].pc = "stored access"
    /\ LET data == procs[p].answer.body IN
          /\ refreshToken' = IF data.refresh_token # Absent THEN data.refresh_token
                                                            ELSE refreshToken
          /\ userID' = IF data.sub # Absent THEN data.sub ELSE userID
    /\ procs' = [procs EXCEPT ![p].pc = "stored refresh"]
    /\ UNCHANGED <<accessToken, encodedToken>>
    /\ RaceFrame

\* c.EncodeToken() reads both fields as they are now; the call then goes on
\* with the request it built before and returns.
StoreEncodedToken(p) ==
    /\ procs[p].pc = "stored refresh"
    /\ encodedToken' = EncodeToken(accessToken, refreshToken)
    /\ procs' = [procs EXCEPT ![p].pc = "done"]
    /\ UNCHANGED <<accessToken, refreshToken, userID>>
    /\ RaceFrame

NextRace ==
    \E p \in Procs :
       \/ BuildHeaders(p)
       \/ Answer(p)
       \/ BuildRefreshForm(p)
       \/ StoreAccessToken(p)
       \/ StoreRefreshToken(p)
       \/ StoreEncodedToken(p)

SpecRace == InitRace /\ [][NextRace]_vars

\* -------------------------------------------------------------- properties
\* C22: calls on one session do not exclude each other: while a call is
\* between its write of accessToken and its write of refreshToken, nothing
\* holds back another call that is about to read accessToken for its headers
\* or refreshToken for its own refresh request.
C22_ReadsNotExcluded ==
    \A p \in Procs, q \in Procs :
       (p # q /\ MidRefresh(q))
       => /\ procs[p].pc = "idle" => ENABLED BuildHeaders(p)
          /\ procs[p].pc = "expired" => ENABLED BuildRefreshForm(p)

\* a call has built its headers from the access token another call's refresh
\* has just stored, while refreshToken and encodedToken are still the old ones
W22_HeaderFromHalfWrittenSession ==
    \E p \in Procs, q \in Procs :
       /\ p # q
       /\ MidRefresh(q)
       /\ procs[p].pc = "sent"
       /\ procs[p].auth = procs[q].answer.body.access_token
       /\ accessToken = procs[q].answer.body.access_token
       /\ procs[q].answer.body.refresh_token = "r2"
       /\ refreshToken = "r0"
       /\ encodedToken = EncodeToken("a0", "r0")


\* =============================================================== SpecDrive
\* The drive operations, each as the one request it sends and what it makes
\* of the answer.

\* ------------------------------------------------------------------ inputs
\* the id lists handed to the operations
IDLists == {<<>>, <<"id1">>, <<"id1", "id2">>}

\* the phases a file record carries: PHASE_TYPE_* values of the server, the
\* values of DownloadStatus, none
Phases ==
    {Absent, "PHASE_TYPE_RUNNING", "PHASE_TYPE_COMPLETE", "PHASE_TYPE_ERROR",
     "PHASE_TYPE_PENDING", "PHASE_TYPE_NOT_FOUND",
     "not_downloading", "downloading", "done", "error", "not_found"}

\* what OfflineFileInfo (getJSON) can return
FileInfoResults ==
    {FileInfo(MaxRetriesReached(TransportError).error, Absent)}
    \cup {FileInfo(NoError, ph) : ph \in Phases}

\* --------------------------------------------------------------- operators
\* strings.Join(elems, ","), kept as the sequence of its parts
Join(elems) ==
    IF Len(elems) = 0 THEN <<>>
    ELSE [i \in 1..(2 * Len(elems) - 1) |->
             IF i % 2 = 1 THEN elems[(i + 1) \div 2] ELSE ","]

\* fmt.Sprintf("%t", b)
FormatBool(b) == IF b THEN "true" ELSE "false"

\* Client.DeleteTasks: DELETE /drive/v1/tasks with the joined ids
DeleteTasks(taskIDs, deleteFiles, resp) ==
    [request |-> DriveRequest("DELETE", "/drive/v1/tasks", <<>>, Absent,
                              Join(taskIDs), FormatBool(deleteFiles)),
     reply   |-> DriveReply(Delete(resp).err, "")]

\* Client.FileBatchStar: the body is {"ids": ids}
FileBatchStar(ids, resp) ==
    [request |-> DriveRequest("POST", "/drive/v1/files:batchStar", ids, Absent,
                              <<>>, Absent),
     reply   |-> DriveReply(postJSON(resp).err, "")]

\* Client.FileBatchUnstar: the body is {"ids": ids}
FileBatchUnstar(ids, resp) ==
    [request |-> DriveRequest("POST", "/drive/v1/files:batchUntrash", ids, Absent,
                              <<>>, Absent),
     reply   |-> DriveReply(postJSON(resp).err, "")]

\* Client.Untrash: the body is {"ids": ids}
Untrash(ids, resp) ==
    [request |-> DriveRequest("POST", "/drive/v1/files:batchUntrash", ids, Absent,
                              <<>>, Absent),
     reply   |-> DriveReply(postJSON(resp).err, "")]

\* enums.ParseDownloadStatus
ParseDownloadStatus(status) ==
    CASE status = "not_downloading" -> "not_downloading"
      [] status = "downloading"     -> "downloading"
      [] status = "done"            -> "done"
      [] status = "error"           -> "error"
      [] status = "not_found"       -> "not_found"
      [] OTHER                      -> "not_found"

\* Client.GetTaskStatus on what OfflineFileInfo returned
GetTaskStatus(info) ==
    IF info.err # NoError THEN DriveReply(info.err, "not_found")
    ELSE IF info.phase # Absent
    THEN DriveReply(NoError, ParseDownloadStatus(info.phase))
    ELSE DriveReply(NoError, "not_found")

\* -------------------------------------------------------------------- Init
InitDrive ==
    /\ ClientAtRest
    /\ CodecAtRest
    /\ BusAtRest
    /\ RaceAtRest
    /\ ConfAtRest
    /\ DriveAtRest

\* ----------------------------------------------------------------- actions
\* what one drive operation leaves behind
Ran(name, out, resp, info) ==
    /\ drvCalls < MaxDriveCalls
    /\ drvCalls' = drvCalls + 1
    /\ drvOp' = name
    /\ request' = out.request
    /\ reply' = out.reply
    /\ served' = resp
    /\ fileInfo' = info
    /\ UNCHANGED <<client, codec, bus, race, conf>>

CallDeleteTasks ==
    \E taskIDs \in IDLists, deleteFiles \in BOOLEAN, resp \in OperationResponses :
       Ran("DeleteTasks", DeleteTasks(taskIDs, deleteFiles, resp), resp, NoFileInfo)

CallFileBatchStar ==
    \E ids \in IDLists, resp \in OperationResponses :
       Ran("FileBatchStar", FileBatchStar(ids, resp), resp, NoFileInfo)

CallFileBatchUnstar ==
    \E ids \in IDLists, resp \in OperationResponses :
       Ran("FileBatchUnstar", FileBatchUnstar(ids, resp), resp, NoFileInfo)

CallUntrash ==
    \E ids \in IDLists, resp \in OperationResponses :
       Ran("Untrash", Untrash(ids, resp), resp, NoFileInfo)

\* GetTaskStatus: GET /drive/v1/files/<fileID> through OfflineFileInfo
CallGetTaskStatus ==
    \E info \in FileInfoResults :
       Ran("GetTaskStatus",
           [request |-> DriveRequest("GET", "/drive/v1/files/", <<"id1">>, Absent,
                                     <<>>, Absent),
            reply   |-> GetTaskStatus(info)],
           NoResponse, info)

NextDrive ==
    \/ CallDeleteTasks
    \/ CallFileBatchStar
    \/ CallFileBatchUnstar
    \/ CallUntrash
    \/ CallGetTaskStatus

SpecDrive == InitDrive /\ [][NextDrive]_vars

\* -------------------------------------------------------------- properties
\* C31: DeleteTasks called with an empty list of task ids returns an error,
\* whatever the server answers.
C31_EmptyTaskListIsAnError ==
    (drvOp = "DeleteTasks" /\ request.task_ids = <<>>) => reply.err # NoError

\* C32: FileBatchUnstar posts to /drive/v1/files:batchStar with star = false
\* and the given ids, and not to the untrash endpoint.
C32_UnstarClearsTheStar ==
    drvOp = "FileBatchUnstar"
    => /\ request.method = "POST"
       /\ request.path = "/drive/v1/files:batchStar"
       /\ request.star = "false"
       /\ request.path # Untrash(request.ids, served).request.path

\* C40: GetTaskStatus returns downloading, done, error for the phases
\* PHASE_TYPE_RUNNING, PHASE_TYPE_COMPLETE, PHASE_TYPE_ERROR, and not_found
\* for none of the three.
C40_PhaseIsMappedToStatus ==
    (drvOp = "GetTaskStatus" /\ fileInfo.err = NoError)
    => /\ fileInfo.phase = "PHASE_TYPE_RUNNING"  => reply.status = "downloading"
       /\ fileInfo.phase = "PHASE_TYPE_COMPLETE" => reply.status = "done"
       /\ fileInfo.phase = "PHASE_TYPE_ERROR"    => reply.status = "error"
       /\ reply.status = "not_found"
          => fileInfo.phase \notin {"PHASE_TYPE_RUNNING", "PHASE_TYPE_COMPLETE",
                                    "PHASE_TYPE_ERROR"}


\* ============================================================== SpecConfig
\* Package config: LoadConfig over the files it can find.

\* ------------------------------------------------------------------ inputs
\* What one candidate path can hold: nothing, a file os.ReadFile fails on, a
\* file that is not JSON, JSON that does not fit Config (an array, a number
\* for a string field), an object without members Config knows, an object
\* with a username, an object with a username and an access_token.
FileContents(user, token) ==
    { MissingFile,
      ConfigFile("unreadable", Absent, Absent),
      ConfigFile("syntax", Absent, Absent),
      ConfigFile("mistyped", user, Absent),
      ConfigFile("object", Absent, Absent),
      ConfigFile("object", user, Absent),
      ConfigFile("object", user, token) }

\* --------------------------------------------------------------- operators
\* filepath.Join(dir, ".pikpakapi.json"): an empty dir is dropped
JoinPath(dir, name) ==
    IF dir = "" THEN name ELSE "/home/u/.pikpakapi.json"

\* the candidates with $HOME/.pikpakapi.json tried first
ConfigPaths_HomeFirst(dir) ==
    <<JoinPath(dir, ".pikpakapi.json"), "config.json", ".pikpakapi.json">>

\* configPaths of LoadConfig
ConfigPaths(dir) ==
    <<"config.json", ".pikpakapi.json", JoinPath(dir, ".pikpakapi.json")>>

\* os.ReadFile
ReadFile(file) ==
    [err |-> file.kind \in {"missing", "unreadable"}, data |-> file]

\* the value json.Unmarshal leaves in a string field: the member's value, the
\* zero value "" when the object has no such member
FieldValue(member) == IF member = Absent THEN "" ELSE member

\* json.Unmarshal(data, &c)
Unmarshal(data) ==
    IF data.kind # "object"
    THEN [err |-> TRUE, c |-> Config("", "")]
    ELSE [err |-> FALSE,
          c |-> Config(FieldValue(data.username), FieldValue(data.access_token))]

\* the loop of LoadConfig from the i-th path on, and the return after it
RECURSIVE LoadFrom(_, _, _)
LoadFrom(paths, fs, i) ==
    IF i > Len(paths) THEN [err |-> "nil", cfg |-> Config("", "")]
    ELSE
        LET read == ReadFile(fs[paths[i]]) IN
        IF read.err THEN LoadFrom(paths, fs, i + 1)
        ELSE
            LET parsed == Unmarshal(read.data) IN
            IF parsed.err THEN LoadFrom(paths, fs, i + 1)
            ELSE [err |-> "nil", cfg |-> parsed.c]

\* config.LoadConfig
LoadConfig(dir, fs) == LoadFrom(ConfigPaths(dir), fs, 1)

\* -------------------------------------------------------------------- Init
\* HOME set or not, and any contents of the three paths
InitConfig ==
    /\ ClientAtRest
    /\ CodecAtRest
    /\ BusAtRest
    /\ RaceAtRest
    /\ DriveAtRest
    /\ home \in {"", HomeDir}
    /\ \E f1 \in FileContents("u1", "a1"), f2 \in FileContents("u2", "a2"),
          f3 \in FileContents("u3", "a3") :
          files = [p \in AllPaths |->
                      CASE p = "config.json"     -> f1
                        [] p = ".pikpakapi.json" -> f2
                        [] OTHER                 -> f3]
    /\ loaded = NotLoaded

\* ----------------------------------------------------------------- actions
CallLoadConfig ==
    /\ loaded = NotLoaded
    /\ loaded' = LoadConfig(home, files)
    /\ UNCHANGED <<client, codec, bus, race, drive, home, files>>

NextConfig == CallLoadConfig

SpecConfig == InitConfig /\ [][NextConfig]_vars

\* -------------------------------------------------------------- properties
\* the candidates in the order ./config.json, ./.pikpakapi.json,
\* $HOME/.pikpakapi.json (the last one only with HOME set)
Candidates ==
    IF home = "" THEN <<"config.json", ".pikpakapi.json">>
    ELSE <<"config.json", ".pikpakapi.json", "/home/u/.pikpakapi.json">>

\* the candidates that can be read and parsed
Qualifying == { i \in DOMAIN Candidates : files[Candidates[i]].kind = "object" }

\* C33: LoadConfig returns no error; its config is that of the first
\* candidate, in the order ./config.json, ./.pikpakapi.json,
\* $HOME/.pikpakapi.json, that can be read and parsed, and the all-empty
\* config when there is none.
C33_FirstQualifyingCandidate ==
    loaded # NotLoaded
    => /\ loaded.err = "nil"
       /\ IF Qualifying = {} THEN loaded.cfg = Config("", "")
          ELSE LET first == CHOOSE i \in Qualifying : \A j \in Qualifying : i <= j
                   file  == files[Candidates[first]]
               IN /\ file.username # Absent => loaded.cfg.username = file.username
                  /\ file.username = Absent => loaded.cfg.username = ""
                  /\ file.access_token # Absent
                        => loaded.cfg.access_token = file.access_token
                  /\ file.access_token = Absent => loaded.cfg.access_token = ""

W33_SkippedTwoCandidates ==
    /\ loaded # NotLoaded
    /\ home = HomeDir
    /\ files["config.json"].kind = "syntax"
    /\ files[".pikpakapi.json"].kind = "unreadable"
    /\ loaded.cfg = Config("u3", "a3")

====
